---- MODULE Spec2Model ----
(***************************************************************************)
(* Per-resource circuit breaker of src/src/breaker.go: the registry        *)
(* Breaker.R, the handlers setFail / setSucc / getStatus, which run under   *)
(* the breaker's mutex (setFail, setSucc) or as a single read (getStatus),  *)
(* and the goroutine autoHalfOpen, modelled step by step because it reads   *)
(* the registry outside the mutex and only writes inside it.                *)
(*                                                                           *)
(* Breaker, Breaker.R and every field of RPC are exported while setFail,    *)
(* setSucc and getStatus are not: the owning application reaches the        *)
(* registry through Breaker.R, so a breaker is taken over by the handlers   *)
(* with any well-formed records in it.  Init therefore draws the registry   *)
(* from the well-formed records (the empty registry of InitBreaker          *)
(* included); R0 remembers what it drew.                                     *)
(***************************************************************************)
EXTENDS Integers, Sequences, FiniteSets, TLC

\* ------------------------------------------------------------------ bounds
MaxTime == 2        \* the clock runs over 1..MaxTime seconds
MaxCalls == 3       \* setFail / setSucc calls made in one run, over all resources

Resources == {"svc-a", "svc-b"}

\* Configurations the breaker is built with: FailThreshold = 1 (fast path),
\* a small one, and the one of the concrete scenario {3, 2, 10}.
Configs ==
  { [FailThreshold |-> 1, SuccThreshold |-> 1, OpenTimeout |-> 0],
    [FailThreshold |-> 2, SuccThreshold |-> 2, OpenTimeout |-> 1],
    [FailThreshold |-> 3, SuccThreshold |-> 2, OpenTimeout |-> 10] }

\* ------------------------------------------------------------------ types
CloseStatus == 0
HalfOpenStatus == 1
OpenStatus == 2

\* &RPC{...}
RPC(s, f, c, t) == [Status |-> s, FailCount |-> f, SuccCount |-> c, OpenTime |-> t]

VARIABLES
  Config,    \* Breaker.Config, fixed at construction
  R,         \* Breaker.R: a function whose domain is the set of keys of the map
  now,       \* time.Now().Unix()
  nowTime,   \* autoHalfOpen's local nowTime (0 until the goroutine has run line 57)
  tpc,       \* autoHalfOpen's position: "start", "wait", "scan", "write"
  todo,      \* keys the running range loop still has to produce
  seen,      \* keys the running range loop has produced
  cur,       \* key whose overwrite (lines 63-70) is pending
  mu,        \* breaker.Mutex: "free", or who is between Lock and Unlock: "caller"
             \* (setFail / setSucc), "callerW" (one that assigned to the map), "ticker"
  fatal,     \* the runtime has thrown "concurrent map read / iteration and map write"
  ret,       \* <<r, s>> when the step just taken was getStatus(r) returning s, else <<>>
  hist,      \* history: per resource, the steps that acted on it since Init
  R0         \* history: the registry at Init

vars == <<Config, R, now, nowTime, tpc, todo, seen, cur, mu, fatal, ret, hist, R0>>

\* ------------------------------------------------------------------ helpers
isHalfOpen(rpc) == rpc.Status = HalfOpenStatus

isOpen(rpc) == rpc.Status = OpenStatus

isClose(rpc) == rpc.Status = CloseStatus

\* The assignment done on a map made anew, holding the one key.
MapSet_onlyKey(m, r, v) == [x \in {r} |-> v]

\* breaker.R[r] = v
MapSet(m, r, v) == [x \in DOMAIN m \cup {r} |-> IF x = r THEN v ELSE m[x]]

\* getStatus with the default of the last line taken for "blocked".
getStatus_absentOpen(m, r) == IF r \in DOMAIN m THEN m[r].Status ELSE OpenStatus

\* getStatus: the status of the record, CloseStatus when the key is absent.
getStatus(m, r) == IF r \in DOMAIN m THEN m[r].Status ELSE CloseStatus

\* setOpenStatus(rpc): assigns a new RPC to its own parameter; the record the
\* caller passed, and the map entry that points to it, are what they were.
setOpenStatus(rpc, t) == rpc

\* setFail with a plain else in place of "else if v.isClose()": an Open record
\* counts failures too.
setFailMap_noCloseTest(m, r, t) ==
  IF r \in DOMAIN m
  THEN IF isHalfOpen(m[r])
       THEN MapSet(m, r, setOpenStatus(m[r], t))
       ELSE LET v == [m[r] EXCEPT !.FailCount = @ + 1]
            IN  IF v.FailCount >= Config.FailThreshold
                THEN MapSet(m, r, setOpenStatus(v, t))
                ELSE MapSet(m, r, v)
  ELSE LET v == RPC(CloseStatus, 0, 0, 0)
       IN  IF Config.FailThreshold = 1
           THEN MapSet(m, r, setOpenStatus(v, t))
           ELSE MapSet(m, r, [v EXCEPT !.FailCount = 1])

\* The registry after setFail(r) called at time t.
setFailMap(m, r, t) ==
  IF r \in DOMAIN m
  THEN IF isHalfOpen(m[r])
       THEN MapSet(m, r, setOpenStatus(m[r], t))
       ELSE IF isClose(m[r])
            THEN LET v == [m[r] EXCEPT !.FailCount = @ + 1]
                 IN  IF v.FailCount >= Config.FailThreshold
                     THEN MapSet(m, r, setOpenStatus(v, t))
                     ELSE MapSet(m, r, v)
            ELSE m
  ELSE LET v == RPC(CloseStatus, 0, 0, 0)
       IN  IF Config.FailThreshold = 1
           THEN MapSet(m, r, setOpenStatus(v, t))
           ELSE MapSet(m, r, [v EXCEPT !.FailCount = 1])

\* setSucc with ">" in place of ">=" at line 148.
setSuccMap_gt(m, r) ==
  IF r \in DOMAIN m /\ isHalfOpen(m[r])
  THEN LET v == [m[r] EXCEPT !.SuccCount = @ + 1]
       IN  IF v.SuccCount > Config.SuccThreshold
           THEN MapSet(m, r, RPC(CloseStatus, 0, 0, 0))
           ELSE MapSet(m, r, v)
  ELSE m

\* setSucc creating the record of an unknown key, as setFail does at line 127.
setSuccMap_creates(m, r) ==
  IF r \in DOMAIN m
  THEN IF isHalfOpen(m[r])
       THEN LET v == [m[r] EXCEPT !.SuccCount = @ + 1]
            IN  IF v.SuccCount >= Config.SuccThreshold
                THEN MapSet(m, r, RPC(CloseStatus, 0, 0, 0))
                ELSE MapSet(m, r, v)
       ELSE m
  ELSE MapSet(m, r, RPC(CloseStatus, 0, 0, 0))

\* setSucc without the isHalfOpen test of line 146.
setSuccMap_noHalfOpenTest(m, r) ==
  IF r \in DOMAIN m
  THEN LET v == [m[r] EXCEPT !.SuccCount = @ + 1]
       IN  IF v.SuccCount >= Config.SuccThreshold
           THEN MapSet(m, r, RPC(CloseStatus, 0, 0, 0))
           ELSE MapSet(m, r, v)
  ELSE m

\* setSucc closing the record with its SuccCount kept.
setSuccMap_keepsCount(m, r) ==
  IF r \in DOMAIN m /\ isHalfOpen(m[r])
  THEN LET v == [m[r] EXCEPT !.SuccCount = @ + 1]
       IN  IF v.SuccCount >= Config.SuccThreshold
           THEN MapSet(m, r, RPC(CloseStatus, 0, v.SuccCount, 0))
           ELSE MapSet(m, r, v)
  ELSE m

\* The registry after setSucc(r).
setSuccMap(m, r) ==
  IF r \in DOMAIN m /\ isHalfOpen(m[r])
  THEN LET v == [m[r] EXCEPT !.SuccCount = @ + 1]
       IN  IF v.SuccCount >= Config.SuccThreshold
           THEN MapSet(m, r, RPC(CloseStatus, 0, 0, 0))
           ELSE MapSet(m, r, v)
  ELSE m

\* setSucc(r) reaches the assignment of line 149.
succCloses(m, r) ==
  r \in DOMAIN m /\ isHalfOpen(m[r]) /\ m[r].SuccCount + 1 >= Config.SuccThreshold

\* The test of line 62 without its first conjunct.
tickerCond_noStatusTest(v) == v.OpenTime + Config.OpenTimeout > nowTime

\* The test of line 62 on record v.
tickerCond(v) == v.Status = OpenStatus /\ v.OpenTime + Config.OpenTimeout > nowTime

\* ------------------------------------------------------------------ Init
\* A record as it enters a status at time t: both counters 0, OpenTime set only
\* for Open.
InitRecords(t) ==
  {RPC(CloseStatus, 0, 0, 0), RPC(HalfOpenStatus, 0, 0, 0), RPC(OpenStatus, 0, 0, t)}

Registries(t) ==
  UNION {[K -> InitRecords(t)] : K \in SUBSET Resources}

Init ==
  /\ Config \in Configs
  /\ now = 1
  /\ R \in Registries(now)
  /\ R0 = R
  /\ nowTime = 0
  /\ tpc = "start"
  /\ todo = {}
  /\ seen = {}
  /\ cur = "svc-a"
  /\ mu = "free"
  /\ fatal = FALSE
  /\ ret = <<>>
  /\ hist = [r \in Resources |-> <<>>]

\* ------------------------------------------------------------------ actions
IsCall(x) == x \in {"fail", "succ"}

\* Number of setFail / setSucc calls made so far.
Calls == Len(SelectSeq(hist["svc-a"], IsCall)) + Len(SelectSeq(hist["svc-b"], IsCall))

\* breaker.setFail(r), lines 109-135: Lock, then the body; the deferred Unlock
\* is the step Unlock.  Line 127 assigns to the map when r has no record.
setFail(r) ==
  /\ ~fatal
  /\ Calls < MaxCalls
  /\ mu = "free"
  /\ mu' = IF r \in DOMAIN R THEN "caller" ELSE "callerW"
  /\ R' = setFailMap(R, r, now)
  /\ ret' = <<>>
  /\ hist' = [hist EXCEPT ![r] = Append(@, "fail")]
  /\ UNCHANGED <<Config, now, nowTime, tpc, todo, seen, cur, fatal, R0>>

\* breaker.setSucc(r), lines 138-158: Lock, then the body; the deferred Unlock
\* is the step Unlock.  Line 149 assigns to the map when the record closes.
setSucc(r) ==
  /\ ~fatal
  /\ Calls < MaxCalls
  /\ mu = "free"
  /\ mu' = IF succCloses(R, r) THEN "callerW" ELSE "caller"
  /\ R' = setSuccMap(R, r)
  /\ ret' = <<>>
  /\ hist' = [hist EXCEPT ![r] = Append(@, "succ")]
  /\ UNCHANGED <<Config, now, nowTime, tpc, todo, seen, cur, fatal, R0>>

\* breaker.getStatus(r), lines 90-96: reads the map without the mutex.
GetStatus(r) ==
  /\ ~fatal
  /\ ret' = <<r, getStatus(R, r)>>
  /\ UNCHANGED <<Config, mu, fatal, R, now, nowTime, tpc, todo, seen, cur, hist, R0>>

\* A second passes.
Advance ==
  /\ ~fatal
  /\ now < MaxTime
  /\ now' = now + 1
  /\ ret' = <<>>
  /\ UNCHANGED <<Config, mu, fatal, R, nowTime, tpc, todo, seen, cur, hist, R0>>

\* autoHalfOpen line 57: the goroutine reads the clock once, before its loop.
TickerStart ==
  /\ ~fatal
  /\ mu # "ticker"
  /\ tpc = "start"
  /\ nowTime' = now
  /\ tpc' = "wait"
  /\ ret' = <<>>
  /\ UNCHANGED <<Config, mu, fatal, R, now, todo, seen, cur, hist, R0>>

\* lines 60-61: a tick arrives and the range over breaker.R begins.  The loop
\* produces every key present now; a key added while it runs may or may not be
\* produced.
TickerTick ==
  /\ ~fatal
  /\ mu # "ticker"
  /\ tpc = "wait"
  /\ tpc' = "scan"
  /\ todo' = DOMAIN R
  /\ seen' = {}
  /\ ret' = <<>>
  /\ UNCHANGED <<Config, mu, fatal, R, now, nowTime, cur, hist, R0>>

\* lines 61-62: the loop produces key r and tests its record, without the mutex.
TickerCheck(r) ==
  /\ ~fatal
  /\ mu # "ticker"
  /\ tpc = "scan"
  /\ r \in DOMAIN R
  /\ r \notin seen
  /\ seen' = seen \cup {r}
  /\ todo' = todo \ {r}
  /\ IF tickerCond(R[r])
     THEN tpc' = "write" /\ cur' = r
     ELSE tpc' = "scan" /\ cur' = cur
  /\ ret' = <<>>
  /\ UNCHANGED <<Config, mu, fatal, R, now, nowTime, hist, R0>>

\* The overwrite of lines 63-69 with the OpenTime of the old record kept.
TickerWrite_keepsOpenTime ==
  /\ ~fatal
  /\ mu = "free"
  /\ mu' = "ticker"
  /\ tpc = "write"
  /\ R' = MapSet(R, cur, RPC(HalfOpenStatus, 0, 0, R[cur].OpenTime))
  /\ tpc' = "scan"
  /\ ret' = <<>>
  /\ hist' = [hist EXCEPT ![cur] = Append(@, "halfopen")]
  /\ UNCHANGED <<Config, now, nowTime, todo, seen, cur, fatal, R0>>

\* lines 63-69: Lock, and the entry of cur is replaced by a Half-Open record; the
\* Unlock of line 70 is the step Unlock.
TickerWrite ==
  /\ ~fatal
  /\ mu = "free"
  /\ mu' = "ticker"
  /\ tpc = "write"
  /\ R' = MapSet(R, cur, RPC(HalfOpenStatus, 0, 0, 0))
  /\ tpc' = "scan"
  /\ ret' = <<>>
  /\ hist' = [hist EXCEPT ![cur] = Append(@, "halfopen")]
  /\ UNCHANGED <<Config, now, nowTime, todo, seen, cur, fatal, R0>>

\* line 61: the range loop ends, back to the select of line 59.
TickerDone ==
  /\ ~fatal
  /\ mu # "ticker"
  /\ tpc = "scan"
  /\ todo = {}
  /\ tpc' = "wait"
  /\ ret' = <<>>
  /\ UNCHANGED <<Config, mu, fatal, R, now, nowTime, todo, seen, cur, hist, R0>>

\* The deferred Unlock of lines 111 and 140, and the Unlock of line 70.
Unlock ==
  /\ ~fatal
  /\ mu # "free"
  /\ mu' = "free"
  /\ ret' = <<>>
  /\ UNCHANGED <<Config, R, now, nowTime, tpc, todo, seen, cur, fatal, hist, R0>>

\* getStatus (line 91) and the range of line 61 read the map without the mutex.
\* When such a read meets an assignment to the map in progress, the program has
\* a data race: the read either goes through (GetStatus, TickerTick, TickerCheck,
\* TickerDone) or the runtime detects it and ends the process.  getStatus can be
\* called at any moment, so the fatal outcome is possible whenever an
\* assignment is.
Fatal ==
  /\ ~fatal
  /\ mu \in {"callerW", "ticker"}
  /\ fatal' = TRUE
  /\ ret' = <<>>
  /\ UNCHANGED <<Config, R, now, nowTime, tpc, todo, seen, cur, mu, hist, R0>>

Next ==
  \/ \E r \in Resources : setFail(r)
  \/ \E r \in Resources : setSucc(r)
  \/ \E r \in Resources : GetStatus(r)
  \/ \E r \in Resources : TickerCheck(r)
  \/ Advance
  \/ TickerStart
  \/ TickerTick
  \/ TickerWrite
  \/ TickerDone
  \/ Unlock
  \/ Fatal

Spec == Init /\ [][Next]_vars

\* ------------------------------------------------------------------ history
\* r had no record when the handlers took the breaker over.
fresh(r) == r \notin DOMAIN R0

Fails(k) == [i \in 1..k |-> "fail"]

\* The step being taken is setFail(r) / setSucc(r) / the ticker's overwrite of r.
FailStep(r) == hist'[r] = Append(hist[r], "fail")

SuccStep(r) == hist'[r] = Append(hist[r], "succ")

DemoteStep(r) == hist'[r] = Append(hist[r], "halfopen")

\* Number of "succ" entries that end h.
SuccRun(h) ==
  LET other == {i \in 1..Len(h) : h[i] # "succ"}
  IN  Len(h) - (IF other = {} THEN 0 ELSE CHOOSE i \in other : \A j \in other : j <= i)

\* The setSucc calls that end hist[r] are all that happened to r since its
\* record became Half-Open (drawn so at Init, or written by the ticker).
SinceHalfOpen(r) ==
  LET p == Len(hist[r]) - SuccRun(hist[r])
  IN  IF p = 0
      THEN r \in DOMAIN R0 /\ R0[r] = RPC(HalfOpenStatus, 0, 0, 0)
      ELSE hist[r][p] = "halfopen"

\* ------------------------------------------------------------------ claims

\* C1: with FailThreshold = N > 1 and a resource r without a record at the
\* start, the k-th consecutive setFail(r), k < N, leaves r Closed with
\* FailCount = k, and the N-th leaves the entry of r Open with both counters 0
\* and OpenTime equal to the time of that call.
C1_OpensAtNthFailure ==
  [][\A r \in Resources :
       (Config.FailThreshold > 1 /\ fresh(r) /\ FailStep(r)) =>
         /\ \A k \in 1..(Config.FailThreshold - 1) :
              hist'[r] = Fails(k) =>
                getStatus(R', r) = CloseStatus /\ R'[r].FailCount = k
         /\ hist'[r] = Fails(Config.FailThreshold) =>
              R'[r] = RPC(OpenStatus, 0, 0, now)]_vars

\* C2: with FailThreshold = 1, setFail(r) on a resource without a record
\* creates the record Open, OpenTime = now and both counters 0, so that
\* getStatus(r) is Open right after.
C2_FirstFailureOpens ==
  [][\A r \in Resources :
       (Config.FailThreshold = 1 /\ r \notin DOMAIN R /\ FailStep(r)) =>
         R'[r] = RPC(OpenStatus, 0, 0, now) /\ getStatus(R', r) = OpenStatus]_vars

\* C3: setFail(r) on a Half-Open record moves it to Open with OpenTime = now
\* and both counters 0, whatever SuccCount was.
C3_HalfOpenFailureOpens ==
  [][\A r \in DOMAIN R :
       (isHalfOpen(R[r]) /\ FailStep(r)) => R'[r] = RPC(OpenStatus, 0, 0, now)]_vars

\* C4: when the ticker tests an Open record, it goes on to overwrite it if
\* the time since OpenTime has passed OpenTimeout at that tick, and only if
\* that time has reached OpenTimeout.
C4_DemotesWhenExpired ==
  [][\A r \in DOMAIN R :
       (tpc = "scan" /\ r \notin seen /\ r \in seen' /\ isOpen(R[r])) =>
         /\ now - R[r].OpenTime > Config.OpenTimeout => tpc' = "write"
         /\ tpc' = "write" => now - R[r].OpenTime >= Config.OpenTimeout]_vars

\* C5: k consecutive setSucc(r) on a record that became Half-Open leave it
\* Half-Open with SuccCount = k while k < SuccThreshold, and the
\* SuccThreshold-th leaves it Closed with both counters and OpenTime 0.
C5_SuccessesClose ==
  \A r \in Resources :
    SinceHalfOpen(r) =>
      LET k == SuccRun(hist[r])
      IN  /\ k < Config.SuccThreshold => R[r] = RPC(HalfOpenStatus, 0, k, 0)
          /\ k = Config.SuccThreshold => R[r] = RPC(CloseStatus, 0, 0, 0)

C5_Witness ==
  \E r \in Resources :
    /\ Config.SuccThreshold = 2
    /\ SinceHalfOpen(r)
    /\ SuccRun(hist[r]) = 2
    /\ R[r] = RPC(CloseStatus, 0, 0, 0)

\* C6: a resource that had no record at the start and was never passed to
\* setFail has no record, and getStatus returns Closed for it, whatever the
\* records of the other resources are.
C6_UnknownIsClosed ==
  \A r \in Resources :
    (fresh(r) /\ \A i \in 1..Len(hist[r]) : hist[r][i] # "fail") =>
      /\ r \notin DOMAIN R
      /\ getStatus(R, r) = CloseStatus
      /\ ret # <<>> /\ ret[1] = r => ret[2] = CloseStatus

C6_Witness ==
  \E r, q \in Resources :
    /\ fresh(r)
    /\ hist[r] = <<"succ">>
    /\ ret = <<r, CloseStatus>>
    /\ q \in DOMAIN R
    /\ isOpen(R[q])

\* C7: setFail(r) on an Open record leaves the record as it is: status,
\* OpenTime and both counters.
C7_OpenFailureNoOp ==
  [][\A r \in DOMAIN R : (isOpen(R[r]) /\ FailStep(r)) => R' = R]_vars

C7_Witness ==
  \E r \in DOMAIN R :
    /\ r \in DOMAIN R0
    /\ isOpen(R0[r])
    /\ hist[r] = <<"fail", "fail">>
    /\ R[r] = R0[r]
    /\ now > R[r].OpenTime

\* C8: setSucc(r) leaves the registry as it is when r has no record or its
\* record is Closed or Open; no record is created.
C8_SuccessNoOp ==
  [][\A r \in Resources :
       (SuccStep(r) /\ (r \in DOMAIN R => isClose(R[r]) \/ isOpen(R[r]))) =>
         R' = R]_vars

C8_Witness ==
  /\ \E r \in Resources : r \notin DOMAIN R /\ hist[r] = <<"succ">>
  /\ \E r \in DOMAIN R : isOpen(R[r]) /\ hist[r] = <<"succ">>
  /\ Calls = 2

\* C9: the status of an Open record changes only in the ticker's overwrite,
\* and the status after it is Half-Open.
C9_OnlyTickerLeavesOpen ==
  [][\A r \in DOMAIN R :
       (isOpen(R[r]) /\ ~isOpen(R'[r])) =>
         tpc = "write" /\ cur = r /\ DemoteStep(r) /\ isHalfOpen(R'[r])]_vars

C9_Witness ==
  \E r \in DOMAIN R :
    /\ r \in DOMAIN R0
    /\ isOpen(R0[r])
    /\ hist[r] = <<"fail", "succ", "halfopen">>
    /\ isHalfOpen(R[r])

\* C10: with {FailThreshold 3, SuccThreshold 2, OpenTimeout 10} and a
\* resource without a record at the start: fail, fail gives Closed with
\* FailCount 2; fail gives Open; a ticker pass gives Half-Open with
\* SuccCount 0; success gives Half-Open with SuccCount 1; fail gives Open
\* with SuccCount 0; a ticker pass gives Half-Open; success, success gives
\* Closed with both counters 0.
Scenario == <<"fail", "fail", "fail", "halfopen", "succ", "fail", "halfopen", "succ", "succ">>

C10_Scenario ==
  \A r \in Resources :
    (Config = [FailThreshold |-> 3, SuccThreshold |-> 2, OpenTimeout |-> 10] /\ fresh(r)) =>
      /\ hist[r] = SubSeq(Scenario, 1, 2) => R[r] = RPC(CloseStatus, 2, 0, 0)
      /\ hist[r] = SubSeq(Scenario, 1, 3) =>
           isOpen(R[r]) /\ R[r].OpenTime \in 1..now /\ R[r].FailCount = 0
      /\ hist[r] = SubSeq(Scenario, 1, 4) => R[r] = RPC(HalfOpenStatus, 0, 0, 0)
      /\ hist[r] = SubSeq(Scenario, 1, 5) => R[r] = RPC(HalfOpenStatus, 0, 1, 0)
      /\ hist[r] = SubSeq(Scenario, 1, 6) =>
           isOpen(R[r]) /\ R[r].OpenTime \in 1..now /\ R[r].SuccCount = 0
      /\ hist[r] = SubSeq(Scenario, 1, 7) => R[r] = RPC(HalfOpenStatus, 0, 0, 0)
      /\ hist[r] = Scenario => R[r] = RPC(CloseStatus, 0, 0, 0)

\* ------------------------------------------------------------------ claims, continued

\* The step being taken reads the map or a record without the mutex: getStatus
\* (line 91), or the ticker's range and test (lines 61-62).
UnlockedAccess ==
  \/ ret' # <<>>
  \/ tpc = "wait" /\ tpc' = "scan"
  \/ tpc = "scan" /\ tpc' # "scan"
  \/ tpc = "scan" /\ seen' # seen

\* C11: no thread reads the registry without the mutex while another thread
\* is between Lock and Unlock, assigning to the map.
C11_AccessUnderMutex ==
  [][UnlockedAccess => mu \notin {"callerW", "ticker"}]_vars

\* C12: the record the ticker overwrites is Open, and OpenTimeout has elapsed
\* since its OpenTime at the moment of the overwrite; every other record is
\* left as it is by the ticker.
C12_TickerOverwritesExpiredOnly ==
  [][\A r \in DOMAIN R :
       (tpc = "write" /\ R'[r] # R[r]) =>
         /\ DemoteStep(r)
         /\ isOpen(R[r])
         /\ now - R[r].OpenTime >= Config.OpenTimeout]_vars

\* C13: the status of a resource (Closed when it has no record) changes only
\* from Closed to Open and from Half-Open to Open in setFail, from Open to
\* Half-Open in the ticker's overwrite, and from Half-Open to Closed in setSucc.
C13_StatusEdges ==
  [][\A r \in Resources :
       LET old == getStatus(R, r)
           new == getStatus(R', r)
       IN  old # new =>
             \/ old = CloseStatus /\ new = OpenStatus /\ FailStep(r)
             \/ old = HalfOpenStatus /\ new = OpenStatus /\ FailStep(r)
             \/ old = OpenStatus /\ new = HalfOpenStatus /\ DemoteStep(r)
             \/ old = HalfOpenStatus /\ new = CloseStatus /\ SuccStep(r)]_vars

C13_Witness ==
  \E r \in DOMAIN R :
    /\ r \in DOMAIN R0
    /\ isOpen(R0[r])
    /\ hist[r] = <<"fail", "halfopen", "succ", "succ">>
    /\ isClose(R[r])

\* C14: FailCount and SuccCount are never negative, and a step that changes
\* the status of a record leaves both at 0.
C14_Counters ==
  /\ [](\A r \in DOMAIN R : R[r].FailCount >= 0 /\ R[r].SuccCount >= 0)
  /\ [][\A r \in DOMAIN R :
          R'[r].Status # R[r].Status =>
            R'[r].FailCount = 0 /\ R'[r].SuccCount = 0]_vars

C14_Witness ==
  \E r \in DOMAIN R :
    /\ Config.SuccThreshold = 2
    /\ hist[r] = <<"halfopen", "succ", "succ">>
    /\ R[r] = RPC(CloseStatus, 0, 0, 0)

FailsIn(h) == Len(SelectSeq(h, LAMBDA x : x = "fail"))

\* C16: with FailThreshold = N > 1, a resource without a record at the start
\* is Open after its N-th setFail when setSucc calls on it came in between.
C16_SuccessesDoNotReset ==
  \A r \in Resources :
    ( /\ Config.FailThreshold > 1
      /\ fresh(r)
      /\ hist[r] # <<>>
      /\ \A i \in 1..Len(hist[r]) : IsCall(hist[r][i])
      /\ hist[r][Len(hist[r])] = "fail"
      /\ FailsIn(hist[r]) = Config.FailThreshold
      /\ FailsIn(hist[r]) < Len(hist[r]) ) =>
      r \in DOMAIN R /\ isOpen(R[r])

\* C17: Open is reached from a resource without a record by setFail calls
\* alone: once FailThreshold or more of them were made, and nothing else
\* happened to it, the record is Open.
C17_OpenReachedByFailures ==
  \A r \in Resources :
    (fresh(r) /\ \E k \in Config.FailThreshold..MaxCalls : hist[r] = Fails(k)) =>
      r \in DOMAIN R /\ isOpen(R[r])

\* C18: every Closed record has FailCount < FailThreshold and every Half-Open
\* record has SuccCount < SuccThreshold.
C18_CountersBelowThreshold ==
  \A r \in DOMAIN R :
    /\ isClose(R[r]) => R[r].FailCount < Config.FailThreshold
    /\ isHalfOpen(R[r]) => R[r].SuccCount < Config.SuccThreshold

\* C19: setFail(r), setSucc(r) and the ticker's overwrite of r leave the
\* record, or the absence of a record, of every other resource as it is, and
\* no step removes a record.
C19_Independent ==
  [][/\ DOMAIN R \subseteq DOMAIN R'
     /\ \A r \in Resources :
          (FailStep(r) \/ SuccStep(r) \/ DemoteStep(r)) =>
            \A q \in Resources \ {r} :
              /\ q \in DOMAIN R' <=> q \in DOMAIN R
              /\ q \in DOMAIN R /\ q \in DOMAIN R' => R'[q] = R[q]]_vars

C19_Witness ==
  \E r, q \in DOMAIN R :
    /\ r # q
    /\ Config.SuccThreshold = 2
    /\ hist[q] = <<"succ">>
    /\ R[q] = RPC(HalfOpenStatus, 0, 1, 0)
    /\ hist[r] = <<"fail", "fail">>

====
